---- MODULE Spec2Model ----
(***************************************************************************)
(* Drafter agent (src/agent.py): the LangGraph loop  agent -> tools ->     *)
(* should_continue -> agent | END, the two tools update and save working   *)
(* on the global document_content, and the direct tool calls of            *)
(* src/test_agent.py.                                                      *)
(*                                                                         *)
(* Python strings are TLA+ strings, handled character by character with    *)
(* Len, SubSeq and \o.  The three emoji of the message texts are written   *)
(* as the ASCII stand-ins CheckMark, CrossMark and WarnSign: none of them  *)
(* is alphanumeric, a space, or part of a word should_continue looks for.  *)
(***************************************************************************)
EXTENDS Integers, Sequences, FiniteSets, TLC

(***************************************************************************)
(* Bounds of the model.                                                    *)
(***************************************************************************)
\* model invocations (runs of model.invoke) in one session
MaxTurns == 2
\* tool calls requested by the model in one session, over all batches
MaxCalls == 3
\* tool calls requested by one response of the model (one batch)
MaxBatch == 2
\* direct tool calls made by the tool test
MaxOps == 3
\* messages of a history given to should_continue on its own
MaxHistory == 3

(***************************************************************************)
(* Python str operations.                                                  *)
(***************************************************************************)
UpperCase == "ABCDEFGHIJKLMNOPQRSTUVWXYZ"
LowerCase == "abcdefghijklmnopqrstuvwxyz"
Digits == "0123456789"

CharAt(s, i) == SubSeq(s, i, i)

\* c in s, for a single character c
HasChar(s, c) == \E i \in 1..Len(s) : CharAt(s, i) = c

\* sub in s
Contains(s, sub) ==
    \E i \in 1..(Len(s) - Len(sub) + 1) : SubSeq(s, i, i + Len(sub) - 1) = sub

\* s.endswith(suffix)
EndsWith(s, suffix) ==
    /\ Len(s) >= Len(suffix)
    /\ SubSeq(s, Len(s) - Len(suffix) + 1, Len(s)) = suffix

\* c.isspace()
isspace(c) == c \in {" ", "\t", "\n", "\r", "\f"}

\* the characters of a string, as a set
Chars(s) == {CharAt(s, i) : i \in 1..Len(s)}

UpperChars == Chars(UpperCase)
AlnumChars == Chars(UpperCase) \cup Chars(LowerCase) \cup Chars(Digits)

\* c.isalnum()
isalnum(c) == c \in AlnumChars

RECURSIVE lstrip(_)
lstrip(s) ==
    IF Len(s) > 0 /\ isspace(CharAt(s, 1)) THEN lstrip(SubSeq(s, 2, Len(s))) ELSE s

RECURSIVE rstrip(_)
rstrip(s) ==
    IF Len(s) > 0 /\ isspace(CharAt(s, Len(s)))
    THEN rstrip(SubSeq(s, 1, Len(s) - 1))
    ELSE s

\* s.strip()
strip(s) == rstrip(lstrip(s))

\* the lower-case letter of each upper-case letter
ToLower ==
    [c \in UpperChars |->
        CharAt(LowerCase, CHOOSE i \in 1..Len(UpperCase) : CharAt(UpperCase, i) = c)]

lower_char(c) == IF c \in UpperChars THEN ToLower[c] ELSE c

RECURSIVE lower(_)
\* s.lower(): every character converted, the string taken by halves
lower(s) ==
    IF Len(s) = 0 THEN ""
    ELSE IF Len(s) = 1 THEN lower_char(s)
    ELSE lower(SubSeq(s, 1, Len(s) \div 2)) \o lower(SubSeq(s, Len(s) \div 2 + 1, Len(s)))

\* the characters save keeps in a filename: c.isalnum() or c in "._- "
keep_char(c) == isalnum(c) \/ c \in {".", "_", "-", " "}

RECURSIVE sanitize(_)
\* "".join(c for c in filename if c.isalnum() or c in "._- "), the string taken
\* by halves
sanitize(s) ==
    IF Len(s) = 0 THEN ""
    ELSE IF Len(s) = 1 THEN (IF keep_char(s) THEN s ELSE "")
    ELSE sanitize(SubSeq(s, 1, Len(s) \div 2))
         \o sanitize(SubSeq(s, Len(s) \div 2 + 1, Len(s)))

RECURSIVE path_name(_)
\* Path(p).name: the last component of a path
path_name(p) ==
    IF HasChar(p, "/")
    THEN path_name(SubSeq(p, (CHOOSE i \in 1..Len(p) : CharAt(p, i) = "/") + 1, Len(p)))
    ELSE p

(***************************************************************************)
(* Message texts.                                                          *)
(***************************************************************************)
\* stand-ins for U+2705, U+274C and U+26A0 U+FE0F
CheckMark == "[v]"
CrossMark == "[x]"
WarnSign == "[!]"

UpdateErrorText == "Error: Cannot update document with empty content."

UpdateSuccessText(doc) ==
    CheckMark \o " Document has been updated successfully!\n\nCurrent content:\n" \o doc

SaveWarningText == WarnSign \o " Warning: Document is empty. Saving empty document."

SaveSuccessText(name) ==
    CheckMark \o " Document has been saved successfully to '" \o name \o "'."

SaveErrorText(err) == CrossMark \o " Error saving document: " \o err

\* str(e) of the OSError that open(file_path, 'w') raises
OSErrorText(io, path) == "[Errno 13] Permission denied: '" \o path \o "'"

\* the outcomes of the file write: done, or open() raising PermissionError
IOOutcomes == {"ok", "EACCES"}

(***************************************************************************)
(* The tools.  Each takes its argument, the global document_content and    *)
(* (save) the outcome of the file write, and gives the return text, the    *)
(* document_content it leaves and the files it wrote.                      *)
(***************************************************************************)
\* update with the emptiness test on content itself: if not content
update_unstripped_test(content, doc) ==
    IF content = ""
    THEN [text |-> UpdateErrorText, document |-> doc, written |-> <<>>]
    ELSE [text |-> UpdateSuccessText(strip(content)),
          document |-> strip(content),
          written |-> <<>>]

\* update storing content as given: document_content = content
update_unstripped_store(content, doc) ==
    IF strip(content) = ""
    THEN [text |-> UpdateErrorText, document |-> doc, written |-> <<>>]
    ELSE [text |-> UpdateSuccessText(content), document |-> content, written |-> <<>>]

update(content, doc) ==
    IF strip(content) = ""
    THEN [text |-> UpdateErrorText, document |-> doc, written |-> <<>>]
    ELSE [text |-> UpdateSuccessText(strip(content)),
          document |-> strip(content),
          written |-> <<>>]

\* the extension appended without the endswith test
normalize_always_append(filename) == sanitize(filename \o ".txt")

\* the extension step alone, the sanitizing step left out
normalize_unsanitized(filename) ==
    IF ~EndsWith(filename, ".txt") THEN filename \o ".txt" ELSE filename

\* filename after the extension and sanitizing steps of save
normalize(filename) ==
    sanitize(IF ~EndsWith(filename, ".txt") THEN filename \o ".txt" ELSE filename)

\* save ending the text it writes with a newline
save_adds_newline(filename, doc, io) ==
    IF strip(doc) = ""
    THEN [text |-> SaveWarningText, document |-> doc, written |-> <<>>]
    ELSE LET file_path == normalize(filename) IN
         IF io = "ok"
         THEN [text |-> SaveSuccessText(path_name(file_path)),
               document |-> doc,
               written |-> <<[path |-> file_path, content |-> doc \o "\n"]>>]
         ELSE [text |-> SaveErrorText(OSErrorText(io, file_path)),
               document |-> doc,
               written |-> <<>>]

\* save emptying the document once it is written
save_clears_document(filename, doc, io) ==
    IF strip(doc) = ""
    THEN [text |-> SaveWarningText, document |-> doc, written |-> <<>>]
    ELSE LET file_path == normalize(filename) IN
         IF io = "ok"
         THEN [text |-> SaveSuccessText(path_name(file_path)),
               document |-> "",
               written |-> <<[path |-> file_path, content |-> doc]>>]
         ELSE [text |-> SaveErrorText(OSErrorText(io, file_path)),
               document |-> doc,
               written |-> <<>>]

save(filename, doc, io) ==
    IF strip(doc) = ""
    THEN [text |-> SaveWarningText, document |-> doc, written |-> <<>>]
    ELSE LET file_path == normalize(filename) IN
         IF io = "ok"
         THEN [text |-> SaveSuccessText(path_name(file_path)),
               document |-> doc,
               written |-> <<[path |-> file_path, content |-> doc]>>]
         ELSE [text |-> SaveErrorText(OSErrorText(io, file_path)),
               document |-> doc,
               written |-> <<>>]

(***************************************************************************)
(* Messages.  id = 0 is a message that has no id yet (id is None);         *)
(* tool_call_id = 0 and name = "" are those of a message that is no        *)
(* ToolMessage.                                                            *)
(***************************************************************************)
Msg(type, content, tool_calls, name, tool_call_id) ==
    [type |-> type, content |-> content, tool_calls |-> tool_calls,
     name |-> name, tool_call_id |-> tool_call_id, id |-> 0]

HumanMessage(content) == Msg("human", content, <<>>, "", 0)
AIMessage(content, tool_calls) == Msg("ai", content, tool_calls, "", 0)
SystemMessage(content) == Msg("system", content, <<>>, "", 0)
ToolMessage(content, name, tool_call_id) == Msg("tool", content, <<>>, name, tool_call_id)

NoMessage == Msg("none", "", <<>>, "", 0)

\* the reducer operator.add in the place of add_messages: right is appended whole
add_messages_concat(left, right) ==
    left \o [k \in 1..Len(right) |-> [right[k] EXCEPT !.id = Len(left) + k]]

RECURSIVE add_messages(_, _)
\* the reducer of AgentState.messages: a message of right whose id is in left
\* replaces that message, any other is appended under a fresh id
add_messages(left, right) ==
    IF right = <<>> THEN left
    ELSE LET m == Head(right)
             same == {i \in 1..Len(left) : m.id # 0 /\ left[i].id = m.id}
         IN IF same # {}
            THEN add_messages([left EXCEPT ![CHOOSE i \in same : TRUE] = m], Tail(right))
            ELSE add_messages(Append(left, [m EXCEPT !.id = Len(left) + 1]), Tail(right))

welcome_message ==
    "\nWelcome to Drafter - Your AI Document Assistant!\n\nWhat would you like to create or work on today?\n"

RepromptText == "Please provide some input or say 'save' to finish."

\* the goodbye line replaced by the line of a completed session
CompletedText == "Drafter session completed successfully!"

GoodbyeText == "Goodbye! Your work has not been saved."

create_system_prompt(doc) ==
    SystemMessage("\nYou are Drafter, a helpful and professional document writing assistant.\n\nCurrent document content:\n"
                  \o (IF doc # "" THEN doc ELSE "No content yet")
                  \o "\n\nRemember: Always show the current document state after any changes.\n")

\* the marker test of should_continue on one message
IsSaveSuccess(message) ==
    /\ message.type = "tool"
    /\ LET content == lower(message.content) IN
        /\ Contains(content, "saved")
        /\ Contains(content, "document")
        /\ Contains(content, "successfully")

\* should_continue looking at the newest message only
should_continue_last_only(msgs) ==
    IF msgs = <<>> THEN "continue"
    ELSE IF IsSaveSuccess(msgs[Len(msgs)]) THEN "end"
    ELSE "continue"

should_continue(msgs) ==
    IF msgs = <<>> THEN "continue"
    ELSE IF \E i \in 1..Len(msgs) : IsSaveSuccess(msgs[i]) THEN "end"
    ELSE "continue"

\* the names of tools = [update, save]
tools == {"update", "save"}

\* ToolNode's answer to a call that names none of tools
InvalidToolText(name) ==
    "Error: " \o name \o " is not a valid tool, try one of [update, save]."

\* ToolNode's dispatch of one tool call to the tool of that name
run_tool(call, doc, io) ==
    CASE call.name = "update" -> update(call.arg, doc)
      [] call.name = "save" -> save(call.arg, doc, io)
      [] call.name \notin tools ->
            [text |-> InvalidToolText(call.name), document |-> doc, written |-> <<>>]

(***************************************************************************)
(* Inputs.                                                                 *)
(***************************************************************************)
\* lines the user types
UserInputs == {" save it "}

\* tool calls the model may request: [name, arg]
ModelToolCalls ==
    {[name |-> "update", arg |-> c] : c \in {" Hi ", "saved", "  "}}
    \cup {[name |-> "save", arg |-> f] : f \in {"poem", "saved successfully"}}
    \cup {[name |-> n, arg |-> "poem"] : n \in {"delete", "saved_document_successfully"}}

RECURSIVE SeqsUpTo(_, _)
\* the sequences over S of length at most n
SeqsUpTo(S, n) ==
    IF n = 0 THEN {<<>>}
    ELSE LET shorter == SeqsUpTo(S, n - 1)
         IN shorter \cup {Append(q, x) : q \in {r \in shorter : Len(r) = n - 1}, x \in S}

ToolCallSeqs == SeqsUpTo(ModelToolCalls, MaxBatch)

\* texts of the assistant and of a model failure
AIContents == {"Done."}
ModelErrors == {"Connection error."}

\* arguments of the direct tool calls
TestContents == {"", "   ", " Hi ", "saved", "line1\nline2"}
TestFilenames == {"poem", "poem.txt", "../x", "a/b", "saved successfully"}

(***************************************************************************)
(* State.                                                                  *)
(***************************************************************************)
VARIABLES
    document_content,   \* the global document_content
    messages,           \* state["messages"] of the graph
    pc,                 \* where the run is: "agent_input" (our_agent, in
                        \* get_user_input), "agent_model" (our_agent, in
                        \* model.invoke), "tools" (ToolNode), "END",
                        \* "exited" (sys.exit), "test" (direct tool calls),
                        \* "history" (should_continue called on its own)
    user_message,       \* our_agent's user_message
    todo,               \* ToolNode: indices of the requested calls not yet run
    outputs,            \* ToolNode: the ToolMessage of each call run
    files,              \* the file writes done, in order: [path, content, tool_call_id]
    result,             \* return value of the last direct call
    notice,             \* the goodbye line printed before sys.exit
    turns,              \* model invocations so far
    calls,              \* tool calls requested so far
    ops                 \* direct tool calls so far

vars == <<document_content, messages, pc, user_message, todo, outputs, files,
          result, notice, turns, calls, ops>>

toolVars == <<todo, outputs>>
testVars == <<result, ops>>

Init ==
    /\ document_content = ""
    /\ messages = <<>>
    /\ pc = "agent_input"
    /\ user_message = NoMessage
    /\ todo = {}
    /\ outputs = <<>>
    /\ files = <<>>
    /\ result = ""
    /\ notice = ""
    /\ turns = 0
    /\ calls = 0
    /\ ops = 0

(***************************************************************************)
(* our_agent, first half: get_user_input.                                  *)
(***************************************************************************)
\* first interaction: no input is read, the welcome message is the user message
Welcome ==
    /\ pc = "agent_input"
    /\ messages = <<>>
    /\ user_message' = HumanMessage(welcome_message)
    /\ pc' = "agent_model"
    /\ UNCHANGED <<document_content, messages, files, notice,
                   turns, calls, toolVars, testVars>>

\* the HumanMessage get_user_input makes of a line read by input()
input_message(user_input) ==
    IF strip(user_input) = ""
    THEN HumanMessage(RepromptText)
    ELSE HumanMessage(strip(user_input))

\* subsequent interactions: input() returns a line (MaxTurns caps the session)
UserInput(user_input) ==
    /\ pc = "agent_input"
    /\ messages # <<>>
    /\ turns < MaxTurns
    /\ user_message' = input_message(user_input)
    /\ pc' = "agent_model"
    /\ UNCHANGED <<document_content, messages, files, notice,
                   turns, calls, toolVars, testVars>>

\* input() raises KeyboardInterrupt or EOFError: goodbye line, sys.exit(0)
UserCancel ==
    /\ pc = "agent_input"
    /\ messages # <<>>
    /\ notice' = GoodbyeText
    /\ pc' = "exited"
    /\ UNCHANGED <<document_content, messages, user_message, files,
                   turns, calls, toolVars, testVars>>

(***************************************************************************)
(* our_agent, second half: model.invoke and the returned state; the edge   *)
(* agent -> tools follows in every case.                                   *)
(***************************************************************************)
\* all_messages built without the system prompt
all_messages_no_system == messages \o <<user_message>>

\* our_agent's all_messages, the argument of model.invoke: the system prompt made
\* of the document as it is now, the history, the user message
all_messages ==
    <<create_system_prompt(document_content)>> \o messages \o <<user_message>>

\* the tool calls of a response, numbered with ids not used before
with_ids(tool_calls) ==
    [k \in 1..Len(tool_calls) |->
        [name |-> tool_calls[k].name, arg |-> tool_calls[k].arg, id |-> calls + k]]

\* our_agent returning the response without the user message
agent_return_no_user(response) ==
    add_messages(messages, messages \o <<response>>)

\* the state our_agent returns, merged by the reducer
agent_return(response) ==
    add_messages(messages, messages \o <<user_message, response>>)

\* the node agent is left for the node tools, which is to run the calls of response
enter_tools(response) ==
    /\ pc' = "tools"
    /\ todo' = 1..Len(response.tool_calls)
    /\ outputs' = [k \in 1..Len(response.tool_calls) |-> NoMessage]

\* model.invoke returns a response (MaxCalls caps the calls of the session)
ModelReply(content, tool_calls) ==
    /\ pc = "agent_model"
    /\ calls + Len(tool_calls) <= MaxCalls
    /\ LET response == AIMessage(content, with_ids(tool_calls)) IN
        /\ messages' = agent_return(response)
        /\ enter_tools(response)
    /\ turns' = turns + 1
    /\ calls' = calls + Len(tool_calls)
    /\ UNCHANGED <<document_content, user_message, files, notice, testVars>>

\* the assistant message made of the error of model.invoke
ErrorResponse(err) == AIMessage(CrossMark \o " Error processing request: " \o err, <<>>)

\* model.invoke raises: the error text becomes the assistant message
ModelError(err) ==
    /\ pc = "agent_model"
    /\ LET error_response == ErrorResponse(err) IN
        /\ messages' = agent_return(error_response)
        /\ enter_tools(error_response)
    /\ turns' = turns + 1
    /\ UNCHANGED <<document_content, user_message, files, notice, calls, testVars>>

(***************************************************************************)
(* The node tools (ToolNode): the calls of the last message are handed to  *)
(* a thread pool, so they run in any order; their ToolMessages are         *)
(* returned in request order once all have run.                            *)
(***************************************************************************)
\* the file writes of a tool run, with the call that made them
written_by(r, id) ==
    [k \in 1..Len(r.written) |->
        [path |-> r.written[k].path, content |-> r.written[k].content,
         tool_call_id |-> id]]

\* one thread of the pool runs call i; io is the outcome of the write, if save
\* comes to write
RunTool(i, io) ==
    /\ pc = "tools"
    /\ i \in todo
    /\ LET call == messages[Len(messages)].tool_calls[i]
           r == run_tool(call, document_content, io)
       IN /\ document_content' = r.document
          /\ files' = files \o written_by(r, call.id)
          /\ outputs' = [outputs EXCEPT ![i] = ToolMessage(r.text, call.name, call.id)]
    /\ todo' = todo \ {i}
    /\ UNCHANGED <<messages, pc, user_message, notice, turns, calls,
                   testVars>>

\* the edge "continue" leading past get_user_input, straight to model.invoke
route_to_model(msgs) == IF should_continue(msgs) = "end" THEN "END" ELSE "agent_model"

\* a conditional edge that ends the session when no tool has run
route_end_without_tools(msgs) ==
    IF should_continue(msgs) = "end" \/ msgs[Len(msgs)].type # "tool"
    THEN "END" ELSE "agent_input"

\* the conditional edge out of tools
route(msgs) == IF should_continue(msgs) = "end" THEN "END" ELSE "agent_input"

\* all calls have run (none, when the last message requests none): their
\* ToolMessages are merged into the history and should_continue picks the edge
ToolsDone ==
    /\ pc = "tools"
    /\ todo = {}
    /\ messages' = add_messages(messages, outputs)
    /\ pc' = route(messages')
    /\ outputs' = <<>>
    /\ UNCHANGED <<document_content, user_message, todo, files, notice,
                   turns, calls, testVars>>

Next ==
    \/ Welcome
    \/ \E user_input \in UserInputs : UserInput(user_input)
    \/ UserCancel
    \/ \E content \in AIContents, tool_calls \in ToolCallSeqs :
          ModelReply(content, tool_calls)
    \/ \E err \in ModelErrors : ModelError(err)
    \/ \E i \in todo, io \in IOOutcomes : RunTool(i, io)
    \/ ToolsDone

Spec == Init /\ [][Next]_vars

(***************************************************************************)
(* The tool test of src/test_agent.py: update and save called directly.    *)
(***************************************************************************)
TestInit ==
    /\ document_content = ""
    /\ messages = <<>>
    /\ pc = "test"
    /\ user_message = NoMessage
    /\ todo = {}
    /\ outputs = <<>>
    /\ files = <<>>
    /\ result = ""
    /\ notice = ""
    /\ turns = 0
    /\ calls = 0
    /\ ops = 0

\* a direct call of a tool: r is what the tool gives
direct_call(r) ==
    /\ pc = "test"
    /\ ops < MaxOps
    /\ document_content' = r.document
    /\ files' = files \o written_by(r, 0)
    /\ result' = r.text
    /\ ops' = ops + 1
    /\ UNCHANGED <<messages, pc, user_message, notice, turns, calls,
                   toolVars>>

TestUpdate(content) == direct_call(update(content, document_content))

TestSave(filename, io) == direct_call(save(filename, document_content, io))

TestNext ==
    \/ \E content \in TestContents : TestUpdate(content)
    \/ \E filename \in TestFilenames, io \in IOOutcomes : TestSave(filename, io)

ToolSpec == TestInit /\ [][TestNext]_vars

(***************************************************************************)
(* should_continue on its own: a history is built message by message from  *)
(* the messages a session can hold, and should_continue is applied to it.  *)
(***************************************************************************)
SuccessfulSaveMessages ==
    {ToolMessage(save(f, "Hi", "ok").text, "save", 0) : f \in {"poem", "saved successfully"}}

FailedSaveMessages ==
    {ToolMessage(save(f, "Hi", io).text, "save", 0) :
        f \in {"poem", "saved successfully"}, io \in IOOutcomes \ {"ok"}}

HistoryMessages ==
    {HumanMessage("save it"), AIMessage("Done.", <<>>)}
    \cup {ToolMessage(update(c, "").text, "update", 0) : c \in {"  ", " Hi ", "saved"}}
    \cup {ToolMessage(save("poem", "", "ok").text, "save", 0)}
    \cup SuccessfulSaveMessages
    \cup FailedSaveMessages

HistoryInit ==
    /\ document_content = ""
    /\ messages = <<>>
    /\ pc = "history"
    /\ user_message = NoMessage
    /\ todo = {}
    /\ outputs = <<>>
    /\ files = <<>>
    /\ result = should_continue(<<>>)
    /\ notice = ""
    /\ turns = 0
    /\ calls = 0
    /\ ops = 0

HistoryAppend(message) ==
    /\ pc = "history"
    /\ Len(messages) < MaxHistory
    /\ messages' = Append(messages, message)
    /\ result' = should_continue(messages')
    /\ UNCHANGED <<document_content, pc, user_message, files, notice, turns, calls,
                   ops, toolVars>>

HistoryNext == \E message \in HistoryMessages : HistoryAppend(message)

HistorySpec == HistoryInit /\ [][HistoryNext]_vars

(***************************************************************************)
(* Vocabulary of the properties.                                           *)
(***************************************************************************)
Last(q) == q[Len(q)]

\* the tool messages of a sequence of messages
ToolResults(msgs) == {i \in 1..Len(msgs) : msgs[i].type = "tool"}

\* the call with this id wrote a file
Wrote(id) == \E k \in 1..Len(files) : files[k].tool_call_id = id

\* message is the ToolMessage of a save call that wrote its file
IsWrittenSave(message) ==
    message.type = "tool" /\ message.name = "save" /\ Wrote(message.tool_call_id)

\* message is the ToolMessage of a save call whose write failed
IsFailedSave(message) ==
    /\ message.type = "tool"
    /\ message.name = "save"
    /\ ~Wrote(message.tool_call_id)
    /\ message.content # SaveWarningText

\* this step ends a tool batch
BatchEnds == pc = "tools" /\ pc' # "tools"

(***************************************************************************)
(* C1.  The termination predicate is true of a session's history only if   *)
(* the history holds the ToolMessage of a save call that wrote its file;   *)
(* the result of an update call or of a failed save never makes it true.   *)
(* Stated as in the claim; the code violates it (update("saved")).         *)
(***************************************************************************)
C1_EndOnlyAfterWrittenSave ==
    (pc = "END" \/ should_continue(messages) = "end")
        => \E i \in 1..Len(messages) : IsWrittenSave(messages[i])

(***************************************************************************)
(* C2.  A save called while the document is empty still writes an (empty)  *)
(* file, answers with a warning, and the session is terminated after that  *)
(* batch.  Stated as in the claim; the code returns the warning before     *)
(* any write and the session goes on.                                      *)
(***************************************************************************)
C2_EmptySaveWritesAndEnds ==
    \A i \in 1..Len(messages) :
        (messages[i].type = "tool" /\ messages[i].content = SaveWarningText)
            => /\ \E k \in 1..Len(files) :
                    /\ files[k].tool_call_id = messages[i].tool_call_id
                    /\ files[k].content = ""
               /\ pc = "END"

C4_WrittenSaveTerminates ==
    [][/\ (BatchEnds /\ \E i \in 1..Len(outputs) : IsWrittenSave(outputs[i]))
            => pc' = "END"
       /\ pc = "END" => UNCHANGED vars
      ]_vars

\* terminated after a batch in which the writing save is followed by another call
C4_Witness ==
    /\ pc = "END"
    /\ \E i \in 1..(Len(messages) - 1) :
          IsWrittenSave(messages[i]) /\ messages[i + 1].type = "tool"

(***************************************************************************)
(* C5.  The termination predicate is false on the empty history and on a   *)
(* history whose only ToolMessage is that of a failed save, and true on    *)
(* every history that holds the ToolMessage of a successful save.  Stated  *)
(* as in the claim, for HistorySpec; the code violates the second part     *)
(* (a failed save of "saved successfully").                                *)
(***************************************************************************)
C5_PredicateOfHistory ==
    /\ messages = <<>> => should_continue(messages) = "continue"
    /\ (\E i \in 1..Len(messages) :
            ToolResults(messages) = {i} /\ messages[i] \in FailedSaveMessages)
          => should_continue(messages) = "continue"
    /\ (\E i \in 1..Len(messages) : messages[i] \in SuccessfulSaveMessages)
          => should_continue(messages) = "end"

\* message without its id
NoId(message) == [message EXCEPT !.id = 0]

\* message is the assistant message of a failed model invocation
IsErrorResponse(message) == \E err \in ModelErrors : NoId(message) = ErrorResponse(err)

(***************************************************************************)
(* C6.  A failed model invocation appends the user message and then the    *)
(* assistant message carrying the error, and requests no tool; the tools   *)
(* node that follows runs nothing, appends nothing, and leaves for         *)
(* get_user_input, not for END; document and files stay as they were.      *)
(***************************************************************************)
C6_ModelFailureAsksUserAgain ==
    [][/\ (pc = "agent_model" /\ pc' # pc /\ IsErrorResponse(Last(messages')))
            => /\ Len(messages') = Len(messages) + 2
               /\ SubSeq(messages', 1, Len(messages)) = messages
               /\ NoId(messages'[Len(messages) + 1]) = user_message
               /\ pc' = "tools"
               /\ todo' = {}
               /\ document_content' = document_content
               /\ files' = files
       /\ (pc = "tools" /\ IsErrorResponse(Last(messages)))
            => /\ pc' = "agent_input"
               /\ messages' = messages
               /\ document_content' = document_content
               /\ files' = files
      ]_vars

\* waiting for the user after two model failures in a row
C6_Witness ==
    /\ pc = "agent_input"
    /\ Len(messages) = 4
    /\ IsErrorResponse(messages[2])
    /\ IsErrorResponse(messages[4])

(***************************************************************************)
(* C7.  The run exits only from get_user_input with a history that is not  *)
(* empty (a cancellation of input()), printing the line that says the work *)
(* has not been saved and leaving history, document and files as they      *)
(* were; after the exit no step changes anything.                          *)
(***************************************************************************)
C7_CancelExits ==
    [][/\ (pc' = "exited" /\ pc # "exited")
            => /\ pc = "agent_input"
               /\ messages # <<>>
               /\ Contains(notice', "has not been saved")
               /\ messages' = messages
               /\ document_content' = document_content
               /\ files' = files
       /\ pc = "exited" => UNCHANGED vars
      ]_vars

\* exited on a cancellation with a document that was never saved
C7_Witness == pc = "exited" /\ document_content # "" /\ files = <<>>

(***************************************************************************)
(* C8.  A save whose write fails leaves the document as it was and does    *)
(* not terminate the session: a batch whose calls are all failed saves is  *)
(* followed by get_user_input; a save that then writes, writes the         *)
(* document as it is and the session ends.  Stated as in the claim; the    *)
(* code terminates after a failed save of "saved successfully".            *)
(***************************************************************************)
C8_FailedSaveIsRetryable ==
    [][/\ (pc = "tools" /\ pc' = "tools" /\ files' = files
             /\ \E i \in todo \ todo' : messages[Len(messages)].tool_calls[i].name = "save")
            => document_content' = document_content
       /\ (BatchEnds /\ outputs # <<>> /\ \A i \in 1..Len(outputs) : IsFailedSave(outputs[i]))
            => pc' = "agent_input"
       /\ (pc = "tools" /\ files' # files)
            => /\ Len(files') = Len(files) + 1
               /\ Last(files').content = document_content
               /\ document_content' = document_content
       /\ (BatchEnds /\ \E i \in 1..Len(outputs) : IsWrittenSave(outputs[i]))
            => pc' = "END"
      ]_vars

(***************************************************************************)
(* C9.  update with content that is empty or only whitespace returns the   *)
(* error text and leaves the document (and the files) as they were,        *)
(* whatever the document holds.                                            *)
(***************************************************************************)
C9_BlankUpdateFails ==
    [][\A c \in TestContents :
          (strip(c) = "" /\ TestUpdate(c))
            => /\ result' = UpdateErrorText
               /\ document_content' = document_content
               /\ files' = files
      ]_vars

\* a blank update has failed on a document that is not empty
C9_Witness == pc = "test" /\ document_content # "" /\ result = UpdateErrorText

(***************************************************************************)
(* C10, as claimed.  For every content that is not the empty string,       *)
(* update succeeds, the document is then the content stripped, and the     *)
(* text returned holds the new document in full.                           *)
(***************************************************************************)
C10_NonEmptyUpdateSucceeds ==
    [][\A c \in TestContents :
          (c # "" /\ TestUpdate(c))
            => /\ document_content' = strip(c)
               /\ result' = UpdateSuccessText(document_content')
               /\ Contains(lower(result'), "successfully")
      ]_vars

(***************************************************************************)
(* C10, amended.  For every content that is not empty once stripped,       *)
(* update succeeds, the document is then the content stripped (whatever    *)
(* it held before), and the text returned holds the new document in full.  *)
(***************************************************************************)
C10_NonBlankUpdateSucceeds ==
    [][\A c \in TestContents :
          (strip(c) # "" /\ TestUpdate(c))
            => /\ document_content' = strip(c)
               /\ result' = UpdateSuccessText(document_content')
               /\ Contains(lower(result'), "successfully")
               /\ Contains(result', strip(c))
      ]_vars

\* " Hi " has replaced a document that held something else, saved before
C10_Witness ==
    /\ pc = "test"
    /\ document_content = "Hi"
    /\ result = UpdateSuccessText("Hi")
    /\ \E k \in 1..Len(files) : files[k].content \notin {"", "Hi"}

\* q is a prefix of r
IsPrefix(q, r) == Len(q) <= Len(r) /\ SubSeq(r, 1, Len(q)) = q

(***************************************************************************)
(* C11.  The history is append-only: in every step the history before is   *)
(* a prefix of the history after.  A step of the agent node adds exactly   *)
(* the user message and then the assistant message, the end of a tool      *)
(* batch adds exactly the ToolMessages of the batch in their order, any    *)
(* other step adds nothing; no two messages of the history share an id.    *)
(***************************************************************************)
C11_HistoryAppendOnly ==
    [][/\ IsPrefix(messages, messages')
       /\ (pc = "agent_model" /\ pc' # pc)
            => /\ Len(messages') = Len(messages) + 2
               /\ NoId(messages'[Len(messages) + 1]) = user_message
               /\ messages'[Len(messages) + 2].type = "ai"
       /\ BatchEnds
            => /\ Len(messages') = Len(messages) + Len(outputs)
               /\ \A k \in 1..Len(outputs) : NoId(messages'[Len(messages) + k]) = outputs[k]
       /\ (pc # "agent_model" /\ ~BatchEnds) => messages' = messages
       /\ \A i, j \in 1..Len(messages') : messages'[i].id = messages'[j].id => i = j
      ]_vars

\* a second agent step and a tool batch have both added to the history
C11_Witness ==
    /\ pc = "tools"
    /\ Len(messages) >= 5
    /\ ToolResults(messages) # {}

(***************************************************************************)
(* C12.  Before the first model invocation, and only then, the history is  *)
(* empty and no input is read: the user message is the welcome message     *)
(* and the messages given to the model are exactly the system prompt and   *)
(* the welcome message.  In every later turn the history is not empty and  *)
(* the user message is made of a line read from the user.                  *)
(***************************************************************************)
C12_WelcomeOnFirstTurnOnly ==
    /\ (pc \in {"agent_input", "agent_model"}) => (turns = 0 <=> messages = <<>>)
    /\ (pc = "agent_model" /\ turns = 0)
          => /\ user_message = HumanMessage(welcome_message)
             /\ all_messages = <<create_system_prompt(""), HumanMessage(welcome_message)>>
             /\ Len(all_messages) = 2
    /\ (pc = "agent_model" /\ turns > 0)
          => /\ \E u \in UserInputs : user_message = input_message(u)
             /\ user_message # HumanMessage(welcome_message)
             /\ Len(all_messages) > 2

\* the first model invocation is about to be made
C12_Witness == pc = "agent_model" /\ turns = 0 /\ Len(all_messages) = 2

(***************************************************************************)
(* C13.  Every save call that reports success has written one file whose   *)
(* content is exactly the document as it was at the call, and the text it  *)
(* returns names that file.                                                *)
(***************************************************************************)
\* text is the confirmation save returns after its write, whatever the file name
ReportsSavedTo(text) ==
    LET head == CheckMark \o " Document has been saved successfully to '" IN
    Len(text) >= Len(head) /\ SubSeq(text, 1, Len(head)) = head

C13_SuccessfulSaveWritesDocument ==
    [][\A f \in TestFilenames, io \in IOOutcomes :
          (TestSave(f, io) /\ ReportsSavedTo(result'))
            => /\ Len(files') = Len(files) + 1
               /\ SubSeq(files', 1, Len(files)) = files
               /\ Last(files').content = document_content
               /\ Contains(result', "'" \o Last(files').path \o "'")
      ]_vars

\* a document of two lines has been written as it is
C13_Witness ==
    /\ pc = "test"
    /\ files # <<>>
    /\ Last(files).content = "line1\nline2"
    /\ result = SaveSuccessText(Last(files).path)

\* every character of s is one that save keeps
IsClean(s) == Chars(s) \subseteq (AlnumChars \cup {".", "_", "-", " "})

(***************************************************************************)
(* C14, as claimed.  A save that writes, writes to filename + ".txt" when  *)
(* filename does not end in ".txt", and to filename itself when it does.   *)
(***************************************************************************)
C14_ExtensionAppendedOnce ==
    [][\A f \in TestFilenames :
          (TestSave(f, "ok") /\ files' # files)
            => Last(files').path = (IF EndsWith(f, ".txt") THEN f ELSE f \o ".txt")
      ]_vars

(***************************************************************************)
(* C14, amended.  A save that writes, writes to the filename with the      *)
(* characters save does not keep removed, followed by ".txt" when          *)
(* filename does not end in ".txt" and by nothing when it does; for a      *)
(* filename of kept characters only that is filename + ".txt", or          *)
(* filename itself.                                                        *)
(***************************************************************************)
C14_ExtensionAppendedOnceToSanitized ==
    [][\A f \in TestFilenames :
          (TestSave(f, "ok") /\ files' # files)
            => /\ Last(files').path
                    = (IF EndsWith(f, ".txt") THEN sanitize(f) ELSE sanitize(f) \o ".txt")
               /\ IsClean(f)
                    => Last(files').path = (IF EndsWith(f, ".txt") THEN f ELSE f \o ".txt")
      ]_vars

\* poem.txt has been written, and so has the file of a filename with a separator
C14_Witness ==
    /\ pc = "test"
    /\ \E k \in 1..Len(files) : files[k].path = "poem.txt"
    /\ \E k \in 1..Len(files) : files[k].path = "ab.txt"

(***************************************************************************)
(* C19.  Whatever the filename, the path save writes to holds only         *)
(* alphanumeric characters, dot, underscore, hyphen and space, ends in     *)
(* ".txt", and holds no path separator.                                    *)
(***************************************************************************)
C19_PathIsSanitized ==
    [][files' # files
          => LET path == Last(files').path IN
                /\ IsClean(path)
                /\ EndsWith(path, ".txt")
                /\ "/" \notin Chars(path)
                /\ "\\" \notin Chars(path)
      ]_vars

\* the file of the filename "../x" has been written
C19_Witness == pc = "test" /\ \E k \in 1..Len(files) : files[k].path = "..x.txt"

\* the response the model gave last requests no tool call
NoToolRequested ==
    /\ pc = "tools"
    /\ Last(messages).type = "ai"
    /\ Last(messages).tool_calls = <<>>

(***************************************************************************)
(* C16.  When the response of the model requests no tool call, the node    *)
(* tools runs no tool and appends no ToolResult, the document and the      *)
(* files are unchanged, and the next step is the request for user input:   *)
(* the session neither ends nor invokes the model again.                   *)
(***************************************************************************)
C16_NoToolCallAsksUser ==
    [][NoToolRequested
          => /\ todo = {}
             /\ outputs = <<>>
             /\ messages' = messages
             /\ document_content' = document_content
             /\ files' = files
             /\ pc' = "agent_input"
      ]_vars

\* the user is asked after a response without tool calls, nothing having run
C16_Witness ==
    /\ pc = "agent_input"
    /\ messages # <<>>
    /\ NoId(Last(messages)) = AIMessage("Done.", <<>>)
    /\ ToolResults(messages) = {}

\* call i of the batch under way is a successful update that leaves the document
UpdateRan(i) ==
    LET call == Last(messages).tool_calls[i] IN
    /\ call.name = "update"
    /\ strip(call.arg) # ""
    /\ document_content' = strip(call.arg)

(***************************************************************************)
(* C18.  The document changes only in a successful update call: every      *)
(* other step (save in each of its outcomes, a rejected update, a call of  *)
(* an unknown tool, the model's reply or failure, the user's input,        *)
(* cancellation, the end of a batch) leaves it as it is.                   *)
(***************************************************************************)
C18_OnlyUpdateChangesDocument ==
    [][document_content' # document_content
          => /\ pc = "tools"
             /\ \E i \in todo \ todo' : UpdateRan(i)
      ]_vars

\* the document survives a failed save, a warning and an unknown tool call
C18_Witness ==
    /\ document_content = "Hi"
    /\ \E i \in 1..Len(messages) : IsFailedSave(messages[i])
    /\ pc = "agent_input"

\* the smallest of a non-empty set of numbers
Min(S) == CHOOSE x \in S : \A y \in S : x <= y

\* the tool calls requested in the history, as pairs of message index and call
Requests(msgs) ==
    {p \in (1..Len(msgs)) \X (1..MaxBatch) : p[2] <= Len(msgs[p[1]].tool_calls)}

(***************************************************************************)
(* C17, as claimed.  The calls of a batch are applied one after the other  *)
(* in request order, so that a later call sees the document as the         *)
(* earlier ones left it; the batch appends one ToolResult per call in      *)
(* that order; every ToolResult of the history answers exactly one call    *)
(* of an earlier assistant message, and no call has two results.           *)
(***************************************************************************)
C17_BatchSequentialInRequestOrder ==
    [][/\ (pc = "tools" /\ todo' # todo) => todo \ todo' = {Min(todo)}
       /\ BatchEnds
            => LET request == Last(messages).tool_calls IN
               /\ Len(messages') = Len(messages) + Len(request)
               /\ \A k \in 1..Len(request) :
                     LET message == messages'[Len(messages) + k] IN
                     /\ message.type = "tool"
                     /\ message.tool_call_id = request[k].id
                     /\ message.name = request[k].name
       /\ \A j \in ToolResults(messages') :
             /\ \E p \in Requests(messages') :
                   /\ p[1] < j
                   /\ messages'[p[1]].tool_calls[p[2]].id = messages'[j].tool_call_id
             /\ \A l \in ToolResults(messages') :
                   messages'[l].tool_call_id = messages'[j].tool_call_id => l = j
      ]_vars

(***************************************************************************)
(* C20, as claimed.  When the session has ended by the edge "end", a file  *)
(* has been written and the last file written holds the document as it    *)
(* is at the end.                                                          *)
(***************************************************************************)
C20_EndedSessionHasSavedDocument ==
    pc = "END" => (files # <<>> /\ Last(files).content = document_content)

\* call i of the batch under way names a tool that is not registered
UnknownCall(i) == Last(messages).tool_calls[i].name \notin tools

(***************************************************************************)
(* C15, as claimed.  A call of a tool that is neither update nor save      *)
(* fails without ending the session: its ToolResult carries the error and  *)
(* is appended to the history, the document is unchanged, no file is       *)
(* written, the termination predicate is not made true by that            *)
(* ToolResult, and after a batch of such calls the user is asked again.    *)
(***************************************************************************)
C15_UnknownToolIsNonFatal ==
    [][/\ \A i \in todo \ todo' :
             UnknownCall(i)
               => LET call == Last(messages).tool_calls[i] IN
                  /\ document_content' = document_content
                  /\ files' = files
                  /\ outputs'[i] = ToolMessage(InvalidToolText(call.name), call.name, call.id)
       /\ BatchEnds
            => \A k \in 1..Len(outputs) :
                  outputs[k].name \notin tools
                    => /\ NoId(messages'[Len(messages) + k]) = outputs[k]
                       /\ ~IsSaveSuccess(outputs[k])
       /\ (BatchEnds /\ \A k \in 1..Len(outputs) : outputs[k].name \notin tools)
            => pc' = "agent_input"
      ]_vars

====
